---- MODULE Spec2Model ----
(***************************************************************************)
(* Model of v2/pkg/menu/menuitem.go: the MenuItem tree, its structural     *)
(* mutators (Append, Prepend, InsertAfter, InsertBefore, removeByID), the  *)
(* lookup getByID and the constructors.                                    *)
(*                                                                         *)
(* A *MenuItem is a node number; nil is 0.  A Go slice is a record         *)
(* [a, off, len] over a heap of backing arrays: a is the array (0 for the  *)
(* nil slice), off the 0-based offset of the slice in it, len its length;  *)
(* its capacity is the rest of the array.  append writes in place while    *)
(* the capacity lasts and allocates a new array otherwise, so two SubMenu  *)
(* fields can share storage exactly as they do in the Go program.          *)
(***************************************************************************)
EXTENDS Integers, Sequences, FiniteSets, TLC

\* Bounds of the model
MaxNodes == 3
MaxLen == 3
MaxSpare == 1
MaxCalls == 2
MaxLit == 2

\* The nil pointer
Nil == 0

\* The identifiers the callers use ("" is the zero value of a string)
IDs == {"a", "b"}
LookupIDs == IDs \cup {""}
TextIDs == {"a"}
RadioIDs == {"a"}
CheckboxIDs == {"b"}
SubMenuIDs == {"b"}

\* The Type constants used by the constructors
TextType == "Text"
SeparatorType == "Separator"
RadioType == "Radio"
CheckboxType == "Checkbox"
SubmenuType == "Submenu"

VARIABLES Type, ID, parent, SubMenu, heap, last, calls

vars == <<Type, ID, parent, SubMenu, heap, last, calls>>

\* The MenuItems allocated so far
Nodes == 1..Len(Type)

\* The nil slice
NilSlice == [a |-> 0, off |-> 0, len |-> 0]

\* cap(s)
Cap(h, s) == IF s.a = 0 THEN 0 ELSE Len(h[s.a]) - s.off

\* The elements of slice s, in order
Elems(h, s) == [i \in 1..s.len |-> h[s.a][s.off + i]]

\* m.SubMenu as a sequence of nodes, in a given heap
ChildrenIn(h, sm, m) == Elems(h, sm[m])

children(m) == ChildrenIn(heap, SubMenu, m)

\* The capacities the runtime may give the array that append allocates for
\* need elements (the language fixes only that it is large enough)
GrowCaps(need) == need..(need + MaxSpare)

\* append(s, vals...): in place when the capacity suffices, else a new array
\* of capacity c holding the old elements followed by vals
GoAppend(h, s, vals, c) ==
  LET need == s.len + Len(vals) IN
  IF Len(vals) = 0 THEN [h |-> h, s |-> s]
  ELSE IF need <= Cap(h, s)
  THEN [h |-> [h EXCEPT ![s.a] =
                 [j \in 1..Len(h[s.a]) |->
                    IF j > s.off + s.len /\ j <= s.off + need
                    THEN vals[j - s.off - s.len] ELSE h[s.a][j]]],
        s |-> [s EXCEPT !.len = need]]
  ELSE [h |-> Append(h, Elems(h, s) \o vals \o [j \in 1..(c - need) |-> Nil]),
        s |-> [a |-> Len(h) + 1, off |-> 0, len |-> need]]

\* s[lo:hi]
Reslice(s, lo, hi) == [a |-> s.a, off |-> s.off + lo, len |-> hi - lo]

\* s[i] = v (i is 0-based)
SetIndex(h, s, i, v) == [h EXCEPT ![s.a][s.off + i + 1] = v]

\* The part of the program state the methods change
State == [parent |-> parent, SubMenu |-> SubMenu, heap |-> heap]

\* isSubMenu testing for the wrong constant: every kind but Separator passes
isSubMenuNotSeparator(m) == Type[m] # SeparatorType

isSubMenu(m) == Type[m] = SubmenuType

\* Append without the line item.parent = m
MenuItemAppendNoParent(st, m, item, c) ==
  IF ~isSubMenu(m) THEN [ret |-> "false", st |-> st]
  ELSE LET r == GoAppend(st.heap, st.SubMenu[m], <<item>>, c)
       IN [ret |-> "true",
           st |-> [st EXCEPT !.heap = r.h, !.SubMenu[m] = r.s]]

\* MenuItem.Append (the name Append is taken by Sequences)
MenuItemAppend(st, m, item, c) ==
  IF ~isSubMenu(m) THEN [ret |-> "false", st |-> st]
  ELSE LET st1 == [st EXCEPT !.parent[item] = m]
           r == GoAppend(st1.heap, st1.SubMenu[m], <<item>>, c)
       IN [ret |-> "true",
           st |-> [st1 EXCEPT !.heap = r.h, !.SubMenu[m] = r.s]]

\* Prepend with append's arguments the wrong way round: the item goes last
MenuItemPrependAtEnd(st, m, item, c) ==
  IF ~isSubMenu(m) THEN [ret |-> "false", st |-> st]
  ELSE LET st1 == [st EXCEPT !.parent[item] = m]
           old == Elems(st1.heap, st1.SubMenu[m])
           h1 == Append(st1.heap, old \o <<item>>)
       IN [ret |-> "true",
           st |-> [st1 EXCEPT !.heap = h1,
                              !.SubMenu[m] = [a |-> Len(h1), off |-> 0,
                                              len |-> Len(old) + 1]]]

\* Prepend without the isSubMenu test
MenuItemPrependUnchecked(st, m, item, c) ==
  LET st1 == [st EXCEPT !.parent[item] = m]
      h1 == Append(st1.heap, <<item>>)
      lit == [a |-> Len(h1), off |-> 0, len |-> 1]
      r == GoAppend(h1, lit, Elems(h1, st1.SubMenu[m]), c)
  IN [ret |-> "true",
      st |-> [st1 EXCEPT !.heap = r.h, !.SubMenu[m] = r.s]]

\* MenuItem.Prepend: the literal []*MenuItem{item} is a new array of
\* capacity 1, to which m.SubMenu's elements are appended
MenuItemPrepend(st, m, item, c) ==
  IF ~isSubMenu(m) THEN [ret |-> "false", st |-> st]
  ELSE LET st1 == [st EXCEPT !.parent[item] = m]
           h1 == Append(st1.heap, <<item>>)
           lit == [a |-> Len(h1), off |-> 0, len |-> 1]
           r == GoAppend(h1, lit, Elems(h1, st1.SubMenu[m]), c)
       IN [ret |-> "true",
           st |-> [st1 EXCEPT !.heap = r.h, !.SubMenu[m] = r.s]]

\* MenuItem.getByID.  fuel is the stack left: the recursion changes nothing,
\* so a call chain longer than the number of nodes repeats a node and never
\* returns; the program then dies of stack exhaustion ("overflow").
RECURSIVE getByID(_, _, _, _)
RECURSIVE getByIDRange(_, _, _, _, _)
\* getByID looking at the receiver after its children instead of before
getByIDChildrenFirst(st, m, id, fuel) ==
  IF fuel = 0 THEN [ret |-> "overflow", node |-> Nil]
  ELSE LET result == getByIDRange(st, Elems(st.heap, st.SubMenu[m]), 1, id, fuel)
       IN IF result.ret # "none" THEN result
          ELSE IF ID[m] = id THEN [ret |-> "found", node |-> m]
          ELSE result

getByID(st, m, id, fuel) ==
  IF fuel = 0 THEN [ret |-> "overflow", node |-> Nil]
  ELSE IF ID[m] = id THEN [ret |-> "found", node |-> m]
  ELSE getByIDRange(st, Elems(st.heap, st.SubMenu[m]), 1, id, fuel)

\* the loop "for _, submenu := range m.SubMenu" of getByID, from position i
getByIDRange(st, items, i, id, fuel) ==
  IF i > Len(items) THEN [ret |-> "none", node |-> Nil]
  ELSE LET result == getByID(st, items[i], id, fuel - 1) IN
       IF result.ret # "none" THEN result
       ELSE getByIDRange(st, items, i + 1, id, fuel)

\* the removal written append(m.SubMenu[:index+1], m.SubMenu[index+1:]...),
\* which keeps the element at index
RemoveAtKeepsItem(st, m, index) ==
  LET s == st.SubMenu[m]
      r == GoAppend(st.heap, Reslice(s, 0, index + 1),
                    Elems(st.heap, Reslice(s, index + 1, s.len)), 0)
  IN [st EXCEPT !.heap = r.h, !.SubMenu[m] = r.s]

\* the removal m.SubMenu = append(m.SubMenu[:index], m.SubMenu[index+1:]...)
RemoveAt(st, m, index) ==
  LET s == st.SubMenu[m]
      r == GoAppend(st.heap, Reslice(s, 0, index),
                    Elems(st.heap, Reslice(s, index + 1, s.len)), 0)
  IN [st EXCEPT !.heap = r.h, !.SubMenu[m] = r.s]

\* MenuItem.removeByID, with the same fuel as getByID
RECURSIVE removeByID(_, _, _, _)
RECURSIVE removeByIDRange(_, _, _, _, _, _)
removeByID(st, m, id, fuel) ==
  IF fuel = 0 THEN [ret |-> "overflow", st |-> st]
  ELSE removeByIDRange(st, m, st.SubMenu[m], 0, id, fuel)

\* the loop of removeByID cutting out the first element whatever the index
\* of the match
removeByIDRangeFirst(st, m, rng, index, id, fuel) ==
  IF index >= rng.len THEN [ret |-> "false", st |-> st]
  ELSE LET item == st.heap[rng.a][rng.off + index + 1] IN
       IF ID[item] = id
       THEN [ret |-> "true", st |-> RemoveAt(st, m, 0)]
       ELSE LET result == IF isSubMenu(item)
                          THEN removeByID(st, item, id, fuel - 1)
                          ELSE [ret |-> "false", st |-> st]
            IN IF result.ret # "false" THEN result
               ELSE removeByIDRange(result.st, m, rng, index + 1, id, fuel)

\* the loop "for index, item := range m.SubMenu" of removeByID, from index;
\* rng is the slice the range clause evaluated once
removeByIDRange(st, m, rng, index, id, fuel) ==
  IF index >= rng.len THEN [ret |-> "false", st |-> st]
  ELSE LET item == st.heap[rng.a][rng.off + index + 1] IN
       IF ID[item] = id
       THEN [ret |-> "true", st |-> RemoveAt(st, m, index)]
       ELSE LET result == IF isSubMenu(item)
                          THEN removeByID(st, item, id, fuel - 1)
                          ELSE [ret |-> "false", st |-> st]
            IN IF result.ret # "false" THEN result
               ELSE removeByIDRange(result.st, m, rng, index + 1, id, fuel)

\* getItemIndex comparing the items' IDs instead of the items
getItemIndexByID(st, m, target) ==
  IF ~isSubMenu(m) THEN -1
  ELSE LET items == Elems(st.heap, st.SubMenu[m])
           hits == {i \in 1..Len(items) : ID[items[i]] = ID[target]}
       IN IF hits = {} THEN -1
          ELSE (CHOOSE i \in hits : \A j \in hits : i <= j) - 1

\* MenuItem.getItemIndex: the 0-based index of target by identity, or -1
getItemIndex(st, m, target) ==
  IF ~isSubMenu(m) THEN -1
  ELSE LET items == Elems(st.heap, st.SubMenu[m])
           hits == {i \in 1..Len(items) : items[i] = target}
       IN IF hits = {} THEN -1
          ELSE (CHOOSE i \in hits : \A j \in hits : i <= j) - 1

\* insertItemAtIndex without the line m.SubMenu[index] = target
insertItemAtIndexNoStore(st, m, index, target, c) ==
  LET s == st.SubMenu[m] IN
  IF index > s.len THEN [ret |-> "false", st |-> st]
  ELSE LET st1 == [st EXCEPT !.parent[target] = m] IN
       IF index = s.len
       THEN LET r == GoAppend(st1.heap, s, <<target>>, c)
            IN [ret |-> "true",
                st |-> [st1 EXCEPT !.heap = r.h, !.SubMenu[m] = r.s]]
       ELSE LET r == GoAppend(st1.heap, Reslice(s, 0, index + 1),
                              Elems(st1.heap, Reslice(s, index, s.len)), c)
            IN [ret |-> "true",
                st |-> [st1 EXCEPT !.heap = r.h, !.SubMenu[m] = r.s]]

\* MenuItem.insertItemAtIndex
insertItemAtIndex(st, m, index, target, c) ==
  LET s == st.SubMenu[m] IN
  IF index > s.len THEN [ret |-> "false", st |-> st]
  ELSE LET st1 == [st EXCEPT !.parent[target] = m] IN
       IF index = s.len
       THEN LET r == GoAppend(st1.heap, s, <<target>>, c)
            IN [ret |-> "true",
                st |-> [st1 EXCEPT !.heap = r.h, !.SubMenu[m] = r.s]]
       ELSE LET r == GoAppend(st1.heap, Reslice(s, 0, index + 1),
                              Elems(st1.heap, Reslice(s, index, s.len)), c)
            IN [ret |-> "true",
                st |-> [st1 EXCEPT !.heap = SetIndex(r.h, r.s, index, target),
                                   !.SubMenu[m] = r.s]]

\* insertNewItemAfterGivenItem setting the new item's parent before it has
\* looked for the target
insertNewItemAfterGivenItemEager(st, m, target, newItem, c) ==
  IF ~isSubMenu(m) THEN [ret |-> "false", st |-> st]
  ELSE LET targetIndex == getItemIndex(st, m, target)
           st1 == [st EXCEPT !.parent[newItem] = m] IN
       IF targetIndex = -1 THEN [ret |-> "false", st |-> st1]
       ELSE insertItemAtIndex(st1, m, targetIndex + 1, newItem, c)

\* MenuItem.insertNewItemAfterGivenItem
insertNewItemAfterGivenItem(st, m, target, newItem, c) ==
  IF ~isSubMenu(m) THEN [ret |-> "false", st |-> st]
  ELSE LET targetIndex == getItemIndex(st, m, target) IN
       IF targetIndex = -1 THEN [ret |-> "false", st |-> st]
       ELSE insertItemAtIndex(st, m, targetIndex + 1, newItem, c)

\* MenuItem.insertNewItemBeforeGivenItem
insertNewItemBeforeGivenItem(st, m, target, newItem, c) ==
  IF ~isSubMenu(m) THEN [ret |-> "false", st |-> st]
  ELSE LET targetIndex == getItemIndex(st, m, target) IN
       IF targetIndex = -1 THEN [ret |-> "false", st |-> st]
       ELSE insertItemAtIndex(st, m, targetIndex, newItem, c)

\* InsertAfter that, finding no parent, adds the item to the receiver itself
InsertAfterIntoSelf(st, m, item, c) ==
  IF st.parent[m] = Nil THEN MenuItemAppend(st, m, item, c)
  ELSE insertNewItemAfterGivenItem(st, st.parent[m], m, item, c)

\* MenuItem.InsertAfter
InsertAfter(st, m, item, c) ==
  IF st.parent[m] = Nil THEN [ret |-> "false", st |-> st]
  ELSE insertNewItemAfterGivenItem(st, st.parent[m], m, item, c)

\* MenuItem.InsertBefore
InsertBefore(st, m, item, c) ==
  IF st.parent[m] = Nil THEN [ret |-> "false", st |-> st]
  ELSE insertNewItemBeforeGivenItem(st, st.parent[m], m, item, c)

\* MenuItem.Parent
Parent(m) == parent[m]

\* The arrays that some SubMenu field refers to, in the order of the first
\* node that refers to them; the others are garbage
RECURSIVE LiveArrays(_, _, _)
LiveArrays(sm, i, acc) ==
  IF i > Len(sm) THEN acc
  ELSE LiveArrays(sm, i + 1,
         IF sm[i].a = 0 \/ \E k \in 1..Len(acc) : acc[k] = sm[i].a
         THEN acc ELSE Append(acc, sm[i].a))

\* Garbage collection: drop the arrays no SubMenu field refers to and number
\* the others in the order of LiveArrays.  What the slices hold is unchanged.
Collect(st) ==
  LET live == LiveArrays(st.SubMenu, 1, <<>>)
      new(a) == CHOOSE k \in 1..Len(live) : live[k] = a
  IN [st EXCEPT
        !.heap = [k \in 1..Len(live) |-> st.heap[live[k]]],
        !.SubMenu = [m \in 1..Len(st.SubMenu) |->
                       IF st.SubMenu[m].a = 0 THEN st.SubMenu[m]
                       ELSE [st.SubMenu[m] EXCEPT !.a = new(st.SubMenu[m].a)]]]

\* The stack a recursive search has: one frame more than there are nodes
Stack == Len(Type) + 1

\* The program runs until a call exhausts the stack
Running == last.ret # "overflow"

\* A method can be called: the run has calls left
Callable == Running /\ calls < MaxCalls

\* The capacities to choose from when k elements are appended to slice s
CapsFor(s, k) ==
  IF s.len + k <= Cap(heap, s) THEN {0} ELSE GrowCaps(s.len + k)

\* A call of a method has returned r: the new state and the record of the call
Returned(op, m, item, id, r) ==
  LET st == Collect(r.st) IN
  /\ parent' = st.parent
  /\ SubMenu' = st.SubMenu
  /\ heap' = st.heap
  /\ last' = [op |-> op, recv |-> m, item |-> item, id |-> id,
              ret |-> r.ret, node |-> Nil, items |-> <<>>]
  /\ calls' = calls + 1
  /\ UNCHANGED <<Type, ID>>

Init ==
  /\ Type = <<>>
  /\ ID = <<>>
  /\ parent = <<>>
  /\ SubMenu = <<>>
  /\ heap = <<>>
  /\ last = [op |-> "init", recv |-> Nil, item |-> Nil, id |-> "",
             ret |-> "", node |-> Nil, items |-> <<>>]
  /\ calls = 0

\* m.Append(item)
CallAppend(m, item) ==
  /\ Callable
  /\ SubMenu[m].len < MaxLen
  /\ \E c \in CapsFor(SubMenu[m], 1) :
       Returned("Append", m, item, "", MenuItemAppend(State, m, item, c))

\* m.Prepend(item)
CallPrepend(m, item) ==
  /\ Callable
  /\ SubMenu[m].len < MaxLen
  /\ \E c \in (IF SubMenu[m].len = 0 THEN {0} ELSE GrowCaps(SubMenu[m].len + 1)) :
       Returned("Prepend", m, item, "", MenuItemPrepend(State, m, item, c))

\* m.InsertAfter(item)
CallInsertAfter(m, item) ==
  /\ Callable
  /\ parent[m] # Nil => SubMenu[parent[m]].len < MaxLen
  /\ \E c \in (IF parent[m] = Nil THEN {0} ELSE CapsFor(SubMenu[parent[m]], 1)) :
       Returned("InsertAfter", m, item, "", InsertAfter(State, m, item, c))

\* m.InsertBefore(item)
CallInsertBefore(m, item) ==
  /\ Callable
  /\ parent[m] # Nil => SubMenu[parent[m]].len < MaxLen
  /\ \E c \in (IF parent[m] = Nil THEN {0} ELSE CapsFor(SubMenu[parent[m]], 1)) :
       Returned("InsertBefore", m, item, "", InsertBefore(State, m, item, c))

\* m.removeByID(id)
CallRemoveByID(m, id) ==
  /\ Callable
  /\ Returned("removeByID", m, Nil, id, removeByID(State, m, id, Stack))

\* m.getByID(id)
CallGetByID(m, id) ==
  /\ Callable
  /\ LET r == getByID(State, m, id, Stack) IN
     last' = [op |-> "getByID", recv |-> m, item |-> Nil, id |-> id,
              ret |-> r.ret, node |-> r.node, items |-> <<>>]
  /\ calls' = calls + 1
  /\ UNCHANGED <<Type, ID, parent, SubMenu, heap>>

\* A constructor without the loop that sets each item's parent
ConstructedNoFixup(op, type, id, h, items) ==
  LET result == Len(Type) + 1
      st == Collect([parent |-> Append(parent, Nil),
                     SubMenu |-> Append(SubMenu, items),
                     heap |-> h])
  IN /\ Type' = Append(Type, type)
     /\ ID' = Append(ID, id)
     /\ parent' = st.parent
     /\ SubMenu' = st.SubMenu
     /\ heap' = st.heap
     /\ last' = [op |-> op, recv |-> Nil, item |-> Nil, id |-> id,
                 ret |-> "", node |-> result, items |-> Elems(h, items)]
     /\ UNCHANGED calls

\* A constructor has built a node of the given type and id around the slice
\* items, its heap being h
Constructed(op, type, id, h, items) ==
  LET result == Len(Type) + 1
      st == Collect([parent |-> [m \in 1..result |->
                                   IF \E i \in 1..items.len : h[items.a][items.off + i] = m
                                   THEN result
                                   ELSE IF m = result THEN Nil ELSE parent[m]],
                     SubMenu |-> Append(SubMenu, items),
                     heap |-> h])
  IN /\ Type' = Append(Type, type)
     /\ ID' = Append(ID, id)
     /\ parent' = st.parent
     /\ SubMenu' = st.SubMenu
     /\ heap' = st.heap
     /\ last' = [op |-> op, recv |-> Nil, item |-> Nil, id |-> id,
                 ret |-> "", node |-> result, items |-> Elems(h, items)]
     /\ UNCHANGED calls

\* Text(label, id, accelerator)
NewText(id) ==
  /\ Running /\ Len(Type) < MaxNodes
  /\ Constructed("Text", TextType, id, heap, NilSlice)

\* Separator()
NewSeparator ==
  /\ Running /\ Len(Type) < MaxNodes
  /\ Constructed("Separator", SeparatorType, "", heap, NilSlice)

\* Radio(label, id, selected, accelerator)
NewRadio(id) ==
  /\ Running /\ Len(Type) < MaxNodes
  /\ Constructed("Radio", RadioType, id, heap, NilSlice)

\* Checkbox(label, id, checked, accelerator)
NewCheckbox(id) ==
  /\ Running /\ Len(Type) < MaxNodes
  /\ Constructed("Checkbox", CheckboxType, id, heap, NilSlice)

\* The slices of existing nodes a caller can pass as items: the nil slice, a
\* slice literal of existing nodes, or a reslice m.SubMenu[lo:hi] of the
\* exported field of an existing node (hi up to its capacity, every element
\* a node: the constructors dereference each item)
LiteralItems == UNION {[1..k -> Nodes] : k \in 1..MaxLit}

FieldItems ==
  {s \in {Reslice(SubMenu[m], lo, hi) :
            m \in Nodes, lo \in 0..MaxLen, hi \in 1..(MaxLen + MaxSpare)} :
     /\ s.a # 0
     /\ s.len >= 1 /\ s.len <= MaxLen
     /\ s.off + s.len <= Len(heap[s.a])
     /\ \A i \in 1..s.len : heap[s.a][s.off + i] # Nil}

\* SubMenu(label, items)
NewSubMenu ==
  /\ Running /\ Len(Type) < MaxNodes
  /\ \/ Constructed("SubMenu", SubmenuType, "", heap, NilSlice)
     \/ \E lit \in LiteralItems :
          Constructed("SubMenu", SubmenuType, "", Append(heap, lit),
                      [a |-> Len(heap) + 1, off |-> 0, len |-> Len(lit)])
     \/ \E s \in FieldItems :
          Constructed("SubMenu", SubmenuType, "", heap, s)

\* SubMenuWithID(label, id, items)
NewSubMenuWithID(id) ==
  /\ Running /\ Len(Type) < MaxNodes
  /\ \/ Constructed("SubMenuWithID", SubmenuType, id, heap, NilSlice)
     \/ \E lit \in LiteralItems :
          Constructed("SubMenuWithID", SubmenuType, id, Append(heap, lit),
                      [a |-> Len(heap) + 1, off |-> 0, len |-> Len(lit)])
     \/ \E s \in FieldItems :
          Constructed("SubMenuWithID", SubmenuType, id, heap, s)

Next ==
  \/ \E id \in TextIDs : NewText(id)
  \/ NewSeparator
  \/ \E id \in RadioIDs : NewRadio(id)
  \/ \E id \in CheckboxIDs : NewCheckbox(id)
  \/ NewSubMenu
  \/ \E id \in SubMenuIDs : NewSubMenuWithID(id)
  \/ \E m \in Nodes, item \in Nodes : CallAppend(m, item)
  \/ \E m \in Nodes, item \in Nodes : CallPrepend(m, item)
  \/ \E m \in Nodes, item \in Nodes : CallInsertAfter(m, item)
  \/ \E m \in Nodes, item \in Nodes : CallInsertBefore(m, item)
  \/ \E m \in Nodes, id \in LookupIDs : CallRemoveByID(m, id)
  \/ \E m \in Nodes, id \in LookupIDs : CallGetByID(m, id)

Spec == Init /\ [][Next]_vars

----------------------------------------------------------------------------
(* Vocabulary of the properties *)

\* The position (from 1) of the first x in sequence s, or 0
IndexOf(s, x) ==
  IF \E i \in 1..Len(s) : s[i] = x
  THEN CHOOSE i \in 1..Len(s) : s[i] = x /\ \A j \in 1..(i - 1) : s[j] # x
  ELSE 0

\* s with x put at position i (from 1)
InsertAt(s, i, x) == SubSeq(s, 1, i - 1) \o <<x>> \o SubSeq(s, i, Len(s))

\* s without its element at position i (from 1)
Without(s, i) == SubSeq(s, 1, i - 1) \o SubSeq(s, i + 1, Len(s))

\* The children of m after the step
childrenAfter(m) == ChildrenIn(heap', SubMenu', m)

\* Node n is an element of some children list
Attached(n) ==
  \E p \in Nodes : \E i \in 1..Len(children(p)) : children(p)[i] = n

\* The places <<p, i>> where node n occurs in the children lists sm over h
Places(h, sm, n) ==
  {pi \in (1..Len(sm)) \X (1..MaxLen) :
     pi[2] <= sm[pi[1]].len /\ ChildrenIn(h, sm, pi[1])[pi[2]] = n}

\* I1, for the fields given
I1In(h, sm, par) ==
  \A n \in 1..Len(sm) :
    /\ Places(h, sm, n) = {} => par[n] = Nil
    /\ par[n] # Nil => \E pi \in Places(h, sm, n) : pi[1] = par[n]

\* I2, for the fields given
I2In(h, sm) == \A n \in 1..Len(sm) : Cardinality(Places(h, sm, n)) <= 1

\* No two SubMenu fields share a backing array
ExclusiveIn(sm) ==
  \A p, q \in 1..Len(sm) : (p # q /\ sm[p].a # 0) => sm[p].a # sm[q].a

\* The elements of m's children list, as a set
Kids(m) == {children(m)[i] : i \in 1..Len(children(m))}

\* The nodes reached from the nodes S by following children up to k times
RECURSIVE ReachFrom(_, _)
ReachFrom(S, k) ==
  IF k = 0 THEN S
  ELSE ReachFrom(S \cup UNION {Kids(n) : n \in S}, k - 1)

\* The proper descendants of m: the nodes reached by one or more steps
Descendants(m) == ReachFrom(Kids(m), Len(Type))

\* What is reachable from m is a tree or a DAG: no node below or at m is
\* its own descendant
Acyclic(m) == \A n \in {m} \cup Descendants(m) : n \notin Descendants(n)

\* The children lists and parents of all nodes are what they were
SameLists == \A n \in Nodes : childrenAfter(n) = children(n)
SameParents == \A n \in Nodes : parent'[n] = parent[n]

\* The call the step made
IsCall(op) == last'.op = op

----------------------------------------------------------------------------
(* C1..C10 *)

\* C1: in every reachable state I1 holds for every node: a node in no
\* children list has no parent, and a node with parent p is an element of
\* p's children (also after removeByID removed it).
C1_ParentInvariant == I1In(heap, SubMenu, parent)

\* C2 as stated: in every reachable state every node occurs at most once in
\* all the children lists together.
C2_NoSharingAlways == I2In(heap, SubMenu)

\* The caller keeps the contract in the step: an inserted item is in no
\* children list at the time of the call, and the list given to a submenu
\* constructor is newly allocated and holds distinct nodes that are in no
\* children list
ContractKept ==
  /\ last'.op \in {"Append", "Prepend", "InsertAfter", "InsertBefore"}
       => ~Attached(last'.item)
  /\ last'.op \in {"SubMenu", "SubMenuWithID"}
       => LET result == last'.node
              items == childrenAfter(result)
          IN /\ \A i \in 1..Len(items) : ~Attached(items[i])
             /\ \A i, j \in 1..Len(items) : items[i] = items[j] => i = j
             /\ \A q \in Nodes : SubMenu'[result].a = 0
                                 \/ SubMenu'[q].a # SubMenu'[result].a

\* C2, amended: a step that keeps the caller's contract, taken where no node
\* occurs twice in the children lists and no two lists share storage, leads
\* to such a state again (and the initial state is one).
C2_NoSharingUnderContract ==
  [][(I2In(heap, SubMenu) /\ ExclusiveIn(SubMenu) /\ ContractKept)
       => (I2In(heap', SubMenu') /\ ExclusiveIn(SubMenu'))]_vars

\* C2's case: an InsertBefore put an item that was in no list in front of a
\* sibling, in a state where no node occurs twice and no storage is shared
C2_Witness ==
  /\ last.op = "InsertBefore" /\ last.ret = "true"
  /\ I2In(heap, SubMenu) /\ ExclusiveIn(SubMenu)
  /\ parent[last.item] # Nil
  /\ Len(children(parent[last.item])) >= 2
  /\ children(parent[last.item])[1] = last.item

\* C3: a call of getByID or removeByID completes and returns a result.
C3_SearchReturns ==
  last.op \in {"getByID", "removeByID"} => last.ret # "overflow"

\* C4: for t with a parent, t.InsertAfter(x) returns true, x is then right
\* after t's position in the parent's children, which are otherwise as
\* before and one longer, and x has t's parent.
C4_InsertAfter ==
  [][(IsCall("InsertAfter") /\ parent[last'.recv] # Nil) =>
       LET t == last'.recv
           x == last'.item
           p == parent[t]
       IN /\ last'.ret = "true"
          /\ childrenAfter(p) = InsertAt(children(p), IndexOf(children(p), t) + 1, x)
          /\ parent'[x] = parent'[t]]_vars

\* C5: for t with a parent, t.InsertBefore(x) returns true, x is then at
\* the position t had in the parent's children and t one later, the others
\* in their order, and x has t's parent.
C5_InsertBefore ==
  [][(IsCall("InsertBefore") /\ parent[last'.recv] # Nil) =>
       LET t == last'.recv
           x == last'.item
           p == parent[t]
       IN /\ last'.ret = "true"
          /\ IndexOf(children(p), t) >= 1
          /\ childrenAfter(p) = InsertAt(children(p), IndexOf(children(p), t), x)
          /\ parent'[x] = parent'[t]]_vars

\* The places <<p, i>> of the children lists below m in the order in which
\* removeByID looks at them: each child, then that child's subtree, then
\* the next child (down to the given depth)
RECURSIVE PlacesBelow(_, _)
RECURSIVE PlacesFrom(_, _, _)
PlacesBelow(m, depth) ==
  IF depth = 0 THEN <<>> ELSE PlacesFrom(m, 1, depth)

PlacesFrom(m, i, depth) ==
  IF i > Len(children(m)) THEN <<>>
  ELSE <<(<<m, i>>)>> \o PlacesBelow(children(m)[i], depth - 1)
       \o PlacesFrom(m, i + 1, depth)

\* The nodes of the tree rooted at m in pre-order: m, then each child's
\* subtree from left to right (down to the given depth)
RECURSIVE PreOrder(_, _)
RECURSIVE PreOrderFrom(_, _, _)
PreOrder(m, depth) ==
  IF depth = 0 THEN <<>> ELSE <<m>> \o PreOrderFrom(m, 1, depth)

PreOrderFrom(m, i, depth) ==
  IF i > Len(children(m)) THEN <<>>
  ELSE PreOrder(children(m)[i], depth - 1) \o PreOrderFrom(m, i + 1, depth)

\* The least element of a non-empty set of numbers
Least(S) == CHOOSE i \in S : \A j \in S : i <= j

\* C6: removeByID(id) on r removes the first node with that id in pre-order
\* over r's proper descendants from its list, which keeps its other elements
\* in order, changes no other list and returns true; with no such
\* descendant it returns false and changes no list.
C6_RemoveByID ==
  [][IsCall("removeByID") =>
       LET r == last'.recv
           id == last'.id
           places == PlacesBelow(r, Stack)
           hits == {k \in 1..Len(places) :
                      ID[children(places[k][1])[places[k][2]]] = id}
       IN /\ (\A n \in Descendants(r) : ID[n] # id)
               => (last'.ret = "false" /\ SameLists)
          /\ (\E n \in Descendants(r) : ID[n] = id)
               => /\ last'.ret = "true"
                  /\ hits # {}
                  /\ LET p == places[Least(hits)][1]
                         i == places[Least(hits)][2]
                     IN /\ childrenAfter(p) = Without(children(p), i)
                        /\ \A q \in Nodes \ {p} : childrenAfter(q) = children(q)]_vars

\* C7: getByID(id) on r, the root of a tree, returns the first node with
\* that id in pre-order (r first, then each child's subtree from left to
\* right), none when no node of the tree has it, and changes no children
\* list and no parent.
C7_GetByID ==
  [][(IsCall("getByID") /\ Acyclic(last'.recv)) =>
       LET order == PreOrder(last'.recv, Stack)
           hits == {k \in 1..Len(order) : ID[order[k]] = last'.id}
       IN /\ hits = {} => (last'.ret = "none" /\ last'.node = Nil)
          /\ hits # {} => (last'.ret = "found" /\ last'.node = order[Least(hits)])
          /\ SameLists /\ SameParents]_vars

\* C7's case: getByID found a node two levels below the root of a tree
C7_Witness ==
  /\ last.op = "getByID" /\ last.ret = "found"
  /\ Acyclic(last.recv)
  /\ last.node # last.recv
  /\ last.node \notin Kids(last.recv)
  /\ last.node \in Descendants(last.recv)

\* C8: for a Submenu m, m.Append(x) returns true, x then has parent m and
\* is the last child of m, after the children m had, in their order.
C8_Append ==
  [][(IsCall("Append") /\ Type[last'.recv] = SubmenuType) =>
       /\ last'.ret = "true"
       /\ parent'[last'.item] = last'.recv
       /\ childrenAfter(last'.recv) = children(last'.recv) \o <<last'.item>>]_vars

\* C8's case: Append added a second or later child to a submenu
C8_Witness ==
  /\ last.op = "Append" /\ last.ret = "true"
  /\ Len(children(last.recv)) >= 2
  /\ children(last.recv)[Len(children(last.recv))] = last.item
  /\ children(last.recv)[1] # last.item

\* C9: for a Submenu m, m.Prepend(x) returns true, x then has parent m and
\* is the first child of m, followed by the children m had, in their order.
C9_Prepend ==
  [][(IsCall("Prepend") /\ Type[last'.recv] = SubmenuType) =>
       /\ last'.ret = "true"
       /\ parent'[last'.item] = last'.recv
       /\ childrenAfter(last'.recv) = <<last'.item>> \o children(last'.recv)]_vars

\* C9's case: Prepend put a child in front of the children of a submenu
C9_Witness ==
  /\ last.op = "Prepend" /\ last.ret = "true"
  /\ Len(children(last.recv)) >= 2
  /\ children(last.recv)[1] = last.item
  /\ children(last.recv)[2] # last.item

\* C10: for m of a kind other than Submenu, m.Append(x) and m.Prepend(x)
\* return false and change neither m's children nor x's parent (nor any
\* other list or parent).
C10_NotASubmenu ==
  [][((IsCall("Append") \/ IsCall("Prepend")) /\ Type[last'.recv] # SubmenuType) =>
       /\ last'.ret = "false"
       /\ SameLists /\ SameParents]_vars

\* C10's case: Prepend on a checkbox was refused, the item keeping the
\* parent it had
C10_Witness ==
  /\ last.op = "Prepend" /\ last.ret = "false"
  /\ Type[last.recv] = CheckboxType
  /\ parent[last.item] # Nil
  /\ children(last.recv) = <<>>

----------------------------------------------------------------------------
(* C11..C20 *)

\* C11: for a root t (no parent), t.InsertAfter(x) and t.InsertBefore(x)
\* return false and change neither x's parent nor any children list.
C11_RootHasNoSiblings ==
  [][((IsCall("InsertAfter") \/ IsCall("InsertBefore"))
        /\ parent[last'.recv] = Nil) =>
       /\ last'.ret = "false"
       /\ SameLists /\ SameParents]_vars

\* C11's case: InsertAfter was refused on a root submenu that has children,
\* for an item other than the root
C11_Witness ==
  /\ last.op = "InsertAfter" /\ last.ret = "false"
  /\ parent[last.recv] = Nil
  /\ Type[last.recv] = SubmenuType
  /\ Len(children(last.recv)) >= 1
  /\ last.item # last.recv

\* C12: in every reachable state a node whose children list is not empty has
\* kind Submenu (I3).
C12_OnlySubmenusHaveChildren ==
  \A n \in Nodes : SubMenu[n].len > 0 => Type[n] = SubmenuType

\* C12's case: a node that is not a submenu was asked to take a child, and a
\* submenu holds children
C12_Witness ==
  /\ last.op \in {"Append", "Prepend"}
  /\ Type[last.recv] # SubmenuType
  /\ SubMenu[last.recv].len = 0
  /\ \E n \in Nodes : SubMenu[n].len > 0

\* C13: the node SubMenu or SubMenuWithID returns has kind Submenu and no
\* parent, its children are the given items in the given order, and the
\* parent of every given item is the new node.
C13_SubMenuConstructor ==
  [][(IsCall("SubMenu") \/ IsCall("SubMenuWithID")) =>
       LET result == last'.node IN
       /\ result = Len(Type) + 1
       /\ Type'[result] = SubmenuType
       /\ parent'[result] = Nil
       /\ childrenAfter(result) = last'.items
       /\ \A i \in 1..Len(last'.items) : parent'[last'.items[i]] = result]_vars

\* C13's case: a submenu was built from two different items, one of them a
\* submenu that has a child of its own
C13_Witness ==
  /\ last.op \in {"SubMenu", "SubMenuWithID"}
  /\ Len(last.items) = 2
  /\ last.items[1] # last.items[2]
  /\ children(last.node) = last.items
  /\ \E i \in 1..2 : SubMenu[last.items[i]].len > 0

\* What is reachable from r is a tree: it has no cycle and every node occurs
\* at most once in the children lists of r and its descendants
Tree(r) ==
  /\ Acyclic(r)
  /\ \A n \in Nodes :
       Cardinality({pi \in Places(heap, SubMenu, n) :
                      pi[1] \in {r} \cup Descendants(r)}) <= 1

\* The proper descendants of r that have the id
Matches(r, id) == {n \in Descendants(r) : ID[n] = id}

\* Exactly one node at or below r has the id, and it is a proper descendant
OnlyMatch(r, id) == ID[r] # id /\ Cardinality(Matches(r, id)) = 1

\* C14: on a tree with root A where exactly one node D, a proper descendant
\* of A, has id i: A.getByID(i) returns D; A.removeByID(i) returns true and
\* leaves D in no children list reachable from A and no node with id i at or
\* below A; after that removal A.getByID(i) returns none and A.removeByID(i)
\* returns false.
C14_RemoveThenSearch ==
  [][\A A \in Nodes, i \in LookupIDs :
       (/\ IsCall("getByID") \/ IsCall("removeByID")
        /\ last'.recv = A /\ last'.id = i
        /\ Tree(A)) =>
         /\ (IsCall("getByID") /\ OnlyMatch(A, i)) =>
              /\ last'.ret = "found"
              /\ last'.node \in Matches(A, i)
         /\ (IsCall("removeByID") /\ OnlyMatch(A, i)) =>
              /\ last'.ret = "true"
              /\ \A D \in Matches(A, i) : D \notin Descendants(A)'
              /\ Matches(A, i)' = {}
              /\ Tree(A)'
         /\ (/\ last.op = "removeByID" /\ last.ret = "true"
             /\ last.recv = A /\ last.id = i
             /\ ID[A] # i /\ Matches(A, i) = {}) =>
              /\ IsCall("getByID") => last'.ret = "none"
              /\ IsCall("removeByID") => last'.ret = "false"]_vars

\* C14's case: the only node with the id was removed from the children of a
\* submenu below the root, and the root is still a tree
C14_Witness ==
  /\ last.op = "removeByID" /\ last.ret = "true"
  /\ Tree(last.recv)
  /\ ID[last.recv] # last.id /\ Matches(last.recv, last.id) = {}
  /\ \E D \in Nodes :
       /\ ID[D] = last.id
       /\ parent[D] \in Descendants(last.recv)
       /\ children(parent[D]) = <<>>

\* The node reached from n by following parent k times, or Nil
RECURSIVE Up(_, _)
Up(n, k) ==
  IF k = 0 \/ n = Nil THEN n ELSE Up(parent[n], k - 1)

\* C15: in every reachable state the children relation has no cycle: no node
\* is reached from itself by following children, and no node is its own
\* ancestor by following parent.
C15_NoCycle ==
  \A n \in Nodes :
    /\ n \notin Descendants(n)
    /\ \A k \in 1..Len(Type) : Up(n, k) # n

\* Another node with t's id is among the children of t's parent
HasTwin(t) ==
  /\ parent[t] # Nil
  /\ \E s \in Kids(parent[t]) : s # t /\ ID[s] = ID[t]

\* C16: InsertAfter and InsertBefore find the receiver t by identity, not by
\* id: when a sibling has the same id as t, a successful call puts x next to
\* t itself (just after, or just before, the first place t holds).
C16_ByIdentity ==
  [][\A t \in Nodes, x \in Nodes :
       (/\ IsCall("InsertAfter") \/ IsCall("InsertBefore")
        /\ last'.recv = t /\ last'.item = x /\ last'.ret = "true"
        /\ HasTwin(t)) =>
         LET p == parent[t]
             k == IndexOf(children(p), t)
         IN /\ k > 0
            /\ IsCall("InsertAfter") =>
                 childrenAfter(p) = InsertAt(children(p), k + 1, x)
            /\ IsCall("InsertBefore") =>
                 childrenAfter(p) = InsertAt(children(p), k, x)]_vars

\* C16's case: x was inserted after t, which stands behind a sibling of the
\* same id, and x is not behind that sibling
C16_Witness ==
  /\ last.op = "InsertAfter" /\ last.ret = "true"
  /\ last.item # last.recv
  /\ parent[last.recv] # Nil
  /\ LET list == children(parent[last.recv]) IN
     /\ Len(list) = 3
     /\ list[1] # last.recv /\ ID[list[1]] = ID[last.recv]
     /\ list[2] = last.recv
     /\ list[3] = last.item

\* C17: whenever InsertAfter or InsertBefore returns false, whatever the
\* reason, x's parent and all children lists are what they were.
C17_FailedInsertChangesNothing ==
  [][((IsCall("InsertAfter") \/ IsCall("InsertBefore"))
        /\ last'.ret = "false") =>
       /\ SameLists /\ SameParents
       /\ parent'[last'.item] = parent[last'.item]]_vars

\* C17's case: InsertAfter was refused because the receiver is no longer
\* among the children of its parent, for an item attached elsewhere
C17_Witness ==
  /\ last.op = "InsertAfter" /\ last.ret = "false"
  /\ parent[last.recv] # Nil
  /\ last.recv \notin Kids(parent[last.recv])
  /\ parent[last.item] # Nil
  /\ parent[last.item] # parent[last.recv]

\* C18: when r.removeByID(id) removes a node n, n's subtree is detached as a
\* unit: afterwards neither n nor a descendant of n is reached from r by
\* following children, while n's own children list and the parents of n's
\* descendants are what they were.  Stated for the calls made while every
\* node is in at most one place and no two children lists share an array.
C18_SubtreeDetached ==
  [][\A r \in Nodes :
       (/\ IsCall("removeByID") /\ last'.recv = r /\ last'.ret = "true"
        /\ I2In(heap, SubMenu) /\ ExclusiveIn(SubMenu)) =>
         \E n \in Matches(r, last'.id) :
           /\ n \notin Descendants(r)'
           /\ Descendants(n) \cap Descendants(r)' = {}
           /\ childrenAfter(n) = children(n)
           /\ \A d \in Descendants(n) : parent'[d] = parent[d]]_vars

\* The container a successful insertion adds to: the receiver of Append and
\* Prepend, the receiver's parent for InsertAfter and InsertBefore
Container ==
  IF IsCall("Append") \/ IsCall("Prepend") THEN last'.recv
  ELSE parent[last'.recv]

\* C19: a successful Append, Prepend, InsertAfter or InsertBefore changes
\* only the container's children list and x's parent: every other children
\* list, every other node's parent and x's own children are what they were,
\* also when submenus were built from the same or overlapping child lists.
C19_InsertionFrame ==
  [][(/\ \/ IsCall("Append") \/ IsCall("Prepend")
         \/ IsCall("InsertAfter") \/ IsCall("InsertBefore")
      /\ last'.ret = "true") =>
       /\ \A q \in Nodes \ {Container} : childrenAfter(q) = children(q)
       /\ \A n \in Nodes \ {last'.item} : parent'[n] = parent[n]]_vars

\* C20: on a tree rooted at r, r.removeByID(id) returns false exactly when
\* no proper descendant of r has the id, and then changes nothing; each call
\* that returns true leaves a tree with fewer proper descendants of that id
\* and fewer nodes reachable from r.  So the calls that return true are at
\* most as many as the descendants with the id at the beginning, and every
\* later call returns false.
C20_RemovalDrains ==
  [][\A r \in Nodes, id \in LookupIDs :
       (/\ IsCall("removeByID") /\ last'.recv = r /\ last'.id = id
        /\ Tree(r)) =>
         /\ last'.ret \in {"true", "false"}
         /\ last'.ret = "false" <=> Matches(r, id) = {}
         /\ last'.ret = "false" => SameLists
         /\ last'.ret = "true" =>
              /\ Tree(r)'
              /\ Matches(r, id)' \subseteq Matches(r, id)
              /\ Cardinality(Matches(r, id)') < Cardinality(Matches(r, id))
              /\ Cardinality(Descendants(r)') < Cardinality(Descendants(r))]_vars

\* C20's case: two calls of removeByID have removed the two children of
\* the receiver that had the id, and none is left
C20_Witness ==
  /\ calls = 2
  /\ last.op = "removeByID" /\ last.ret = "true"
  /\ Tree(last.recv)
  /\ Matches(last.recv, last.id) = {}
  /\ Cardinality({n \in Nodes : /\ ID[n] = last.id
                                /\ parent[n] = last.recv
                                /\ n \notin Kids(last.recv)}) = 2

====
